---- MODULE Spec2Model ----
(***************************************************************************)
(* A model of the tlilcoatl interpreter (src/main.py): the reader          *)
(* read_from_tokens/atom, the environment chain Env, user procedures       *)
(* Procedure and the evaluator eval.                                       *)
(*                                                                         *)
(* The reader is a function of the token list and is modelled by recursive *)
(* operators.  The evaluator is recursive in the source; here every        *)
(* activation of eval that waits for a nested call is a frame on `stack`,  *)
(* and one action is one branch of eval up to its next nested call (or one *)
(* resumption of a waiting activation with the value the call returned).   *)
(*                                                                         *)
(* Python values are tagged by the single field of a record:               *)
(*   [sym |-> s]  str       [num |-> n]  int       [list |-> <<..>>] list  *)
(*   [none |-> 0] None      [bool |-> b] bool      [builtin |-> name]      *)
(*   [proc |-> [parms, body, env]]  a Procedure object                     *)
(* An expression of the program is addressed by its path (the indices from *)
(* the root of the parsed list x), so that the in-place swap of line 110   *)
(* is seen by everything that refers to the list.                          *)
(*                                                                         *)
(* `program` is the list of tokens that tokenize yields for the source     *)
(* text; the text itself and the printing of the result are not modelled.  *)
(***************************************************************************)
EXTENDS Integers, Sequences, FiniteSets, TLC

VARIABLES program, tokens, x, envs, stack, pc, xpath, xenv, val, error

vars == <<program, tokens, x, envs, stack, pc, xpath, xenv, val, error>>

(***************************************************************************)
(* Bounds of the model.                                                    *)
(***************************************************************************)
\* longest token sequence enumerated exhaustively
MaxTokens == 5
\* number of nested activations after which the host raises RecursionError
MaxDepth == 8

(***************************************************************************)
(* Values.                                                                 *)
(***************************************************************************)
Sym(s) == [sym |-> s]
Num(n) == [num |-> n]
Lst(s) == [list |-> s]
NoneV == [none |-> 0]
Bool(b) == [bool |-> b]
Builtin(n) == [builtin |-> n]
Proc(parms, body, env) == [proc |-> [parms |-> parms, body |-> body, env |-> env]]

IsSym(v) == DOMAIN v = {"sym"}
IsNum(v) == DOMAIN v = {"num"}
IsList(v) == DOMAIN v = {"list"}
IsNone(v) == DOMAIN v = {"none"}
IsBool(v) == DOMAIN v = {"bool"}
IsBuiltin(v) == DOMAIN v = {"builtin"}
IsProc(v) == DOMAIN v = {"proc"}

\* x == s for a str s: only a str with the same characters is equal
IsTheSym(v, s) == IsSym(v) /\ v.sym = s

(***************************************************************************)
(* Error kinds: the exceptions of the host that the code raises or lets    *)
(* escape.                                                                 *)
(***************************************************************************)
NoError == "none"
SyntaxErrorEOF == "SyntaxError: unexpected EOF"
SyntaxErrorParen == "SyntaxError: unexpected )"
IndexError == "IndexError"
ValueError == "ValueError"
TypeError == "TypeError"
AttributeError == "AttributeError"
RecursionError == "RecursionError"

(***************************************************************************)
(* The reader.                                                             *)
(***************************************************************************)
\* int(token) succeeds on these tokens (the numerals of the token alphabet)
IntTokens == {"0", "1", "2", "3"}

IntOf(token) ==
    CASE token = "0" -> 0
      [] token = "1" -> 1
      [] token = "2" -> 2
      [] token = "3" -> 3

atom(token) == IF token \in IntTokens THEN Num(IntOf(token)) ELSE Sym(token)

ReadResult(e, exp, rest) == [err |-> e, exp |-> exp, tokens |-> rest]

RECURSIVE read_from_tokens(_), ReadList(_, _)

\* the loop of lines 83-87: tokens[0] is read before every round
ReadList(toks, L) ==
    IF Len(toks) = 0 THEN ReadResult(IndexError, NoneV, toks)
    ELSE IF toks[1] # ")"
    THEN LET r == read_from_tokens(toks)
         IN  IF r.err # NoError THEN r ELSE ReadList(r.tokens, Append(L, r.exp))
    ELSE ReadResult(NoError, Lst(L), Tail(toks))

read_from_tokens(toks) ==
    IF Len(toks) = 0 THEN ReadResult(SyntaxErrorEOF, NoneV, toks)
    ELSE LET token == Head(toks)
             rest == Tail(toks)
         IN  IF token = "(" THEN ReadList(rest, <<>>)
             ELSE IF token = ")" THEN ReadResult(SyntaxErrorParen, NoneV, rest)
             ELSE ReadResult(NoError, atom(token), rest)

(***************************************************************************)
(* Expressions of the parsed program, addressed by path.                   *)
(***************************************************************************)
RECURSIVE NodeAt(_, _)
NodeAt(e, path) ==
    IF path = <<>> THEN e ELSE NodeAt(e.list[Head(path)], Tail(path))

\* a swap that leaves the list as it was
SwapAtNone(e, path) == e

\* x[0], x[1] = x[1], x[0] on the list at `path` (line 110)
RECURSIVE SwapAt(_, _)
SwapAt(e, path) ==
    IF path = <<>>
    THEN Lst([e.list EXCEPT ![1] = e.list[2], ![2] = e.list[1]])
    ELSE Lst([e.list EXCEPT ![Head(path)] = SwapAt(@, Tail(path))])

(***************************************************************************)
(* Environments.  envs is the heap of Env objects, envs[1] is global_env;  *)
(* outer = 0 stands for None.                                              *)
(***************************************************************************)
EnvRec(vs, outer) == [vars |-> vs, outer |-> outer]

NoVars == [k \in {} |-> NoneV]

\* a list is unhashable: it cannot be a key of, or be looked up in, a dict
Hashable(v) == ~IsList(v)

\* the part of the standard procedures that the model keeps
\* (begin, list, not); vars(math) and the rest of the table are left out
BuiltinNames == {"begin", "list", "not"}

standard_env == EnvRec([k \in {Sym(n) : n \in BuiltinNames} |-> Builtin(k.sym)], 0)

\* Python truth of a value, as `if`, `not` take it
Truthy(v) ==
    CASE IsBool(v) -> v.bool
      [] IsNone(v) -> FALSE
      [] IsNum(v) -> v.num # 0
      [] IsList(v) -> Len(v.list) > 0
      [] IsSym(v) -> v.sym # ""
      [] OTHER -> TRUE

BuiltinResult(e, v) == [err |-> e, val |-> v]

CallBuiltin(name, vals) ==
    CASE name = "begin" ->
            IF Len(vals) = 0 THEN BuiltinResult(IndexError, NoneV)
            ELSE BuiltinResult(NoError, vals[Len(vals)])
      [] name = "list" -> BuiltinResult(NoError, Lst(vals))
      [] name = "not" ->
            IF Len(vals) # 1 THEN BuiltinResult(TypeError, NoneV)
            ELSE BuiltinResult(NoError, Bool(~Truthy(vals[1])))

\* a search that prefers the outermost Env where var appears
RECURSIVE FindOutermost(_, _, _)
FindOutermost(es, e, var) ==
    IF e = 0 THEN 0
    ELSE LET o == FindOutermost(es, es[e].outer, var)
         IN  IF o # 0 THEN o
             ELSE IF var \in DOMAIN es[e].vars THEN e ELSE 0

\* Env.find: the index of the innermost Env where var appears; 0 when the
\* search leaves the root, where self.outer is None and None.find raises
RECURSIVE Find(_, _, _)
Find(es, e, var) ==
    IF e = 0 THEN 0
    ELSE IF var \in DOMAIN es[e].vars THEN e
    ELSE Find(es, es[e].outer, var)

\* the characters of a str, as iterating it yields them
Chars(s) ==
    CASE s = "->" -> <<"-", ">">>
      [] s = "quote" -> <<"q", "u", "o", "t", "e">>
      [] s = "define" -> <<"d", "e", "f", "i", "n", "e">>
      [] s = "set!" -> <<"s", "e", "t", "!">>
      [] s = "if" -> <<"i", "f">>
      [] s = "begin" -> <<"b", "e", "g", "i", "n">>
      [] s = "list" -> <<"l", "i", "s", "t">>
      [] s = "not" -> <<"n", "o", "t">>
      [] OTHER -> <<s>>

Min(a, b) == IF a < b THEN a ELSE b

\* Env.__init__: self.update(zip(parms, args)).  zip stops at the shorter of
\* the two; a later pair with the same key overwrites an earlier one
Bind(parms, args) ==
    IF IsNum(parms) THEN [err |-> TypeError, vars |-> NoVars]
    ELSE LET it == IF IsList(parms) THEN parms.list
                   ELSE [i \in 1..Len(Chars(parms.sym)) |-> Sym(Chars(parms.sym)[i])]
             n == Min(Len(it), Len(args))
             keys == {it[i] : i \in 1..n}
             last(k) == CHOOSE i \in 1..n : it[i] = k /\ \A j \in 1..n : it[j] = k => j <= i
         IN  IF \E i \in 1..n : ~Hashable(it[i])
             THEN [err |-> TypeError, vars |-> NoVars]
             ELSE [err |-> NoError, vars |-> [k \in keys |-> args[last(k)]]]

\* d[key] = value on a dict
SetItem(vs, key, value) == [k \in DOMAIN vs \cup {key} |-> IF k = key THEN value ELSE vs[k]]

(***************************************************************************)
(* Frames: the activations that wait for a nested call.                    *)
(*   swap    eval at line 111      if      eval at line 117 (the test)     *)
(*   branch  eval at line 118      define  eval at line 121                *)
(*   set     eval at line 124      op      eval at line 129                *)
(*   args    eval at line 130      apply   eval at line 131                *)
(*   call    Procedure.__call__ at line 65                                 *)
(***************************************************************************)
Frame(k, path, env, proc, vals) ==
    [k |-> k, path |-> path, env |-> env, proc |-> proc, vals |-> vals]

Top == stack[Len(stack)]
Rest == SubSeq(stack, 1, Len(stack) - 1)

(***************************************************************************)
(* The programs that are run.                                              *)
(***************************************************************************)
TokenAlphabet == {"(", ")", "x", "1", "->", "quote"}

ShortPrograms == UNION {[1..n -> TokenAlphabet] : n \in 0..MaxTokens}

Par(s) == <<"(">> \o s \o <<")">>

Defs == {Par(<<"define", "x", "1">>), Par(<<"define", "y", "1">>)}

Params == {<<>>, <<"x">>, <<"y">>, <<"x", "y">>}

Bodies ==
    {<<"x">>,
     Par(<<"set!", "x", "3">>),
     Par(<<"define", "x", "3">>),
     Par(<<"begin">> \o Par(<<"define", "x", "3">>) \o <<"x">>),
     Par(<<"begin">> \o Par(<<"set!", "x", "3">>) \o <<"x">>)}

\* procedure literals, in the prefix and in the infix notation
Lambdas ==
    {Par(<<"->">> \o Par(ps) \o b) : ps \in Params, b \in Bodies}
    \cup {Par(Par(ps) \o <<"->">> \o b) : ps \in Params, b \in Bodies}

Mids == {Par(<<"set!", "x", "2">>), Par(<<"set!", "y", "2">>), <<"x">>}

Calls ==
    {Par(<<"f", "0">>), Par(<<"f">>), Par(<<"f", "0", "1">>), <<"x">>,
     Par(<<"list">> \o Par(<<"f", "0">>) \o <<"x">>)}

\* (begin (define v 1) (define f <lambda>) <mid> <call>)
ClosurePrograms ==
    {Par(<<"begin">> \o d \o Par(<<"define", "f">> \o l) \o m \o c) :
        d \in Defs, l \in Lambdas, m \in Mids, c \in Calls}

Operands == {<<>>, <<"2">>, <<"2", "0">>}

\* (begin (define v 1) (list (<lambda> <operands>) x))
LiteralCallPrograms ==
    {Par(<<"begin">> \o d \o Par(<<"list">> \o Par(l \o a) \o <<"x">>)) :
        d \in Defs, l \in Lambdas, a \in Operands}

Tests ==
    {<<"0">>, <<"1">>, <<"x">>, <<"begin">>,
     Par(<<"not", "1">>), Par(<<"not", "0">>),
     Par(<<"quote">> \o Par(<<>>)), Par(<<"quote">> \o Par(<<"0">>)),
     Par(<<"quote", "x">>), Par(<<"define", "x", "1">>),
     Par(<<"->">> \o Par(<<"x">>) \o <<"x">>)}

Branches == {<<"1">>, <<"2">>, Par(<<"define", "a", "1">>), Par(<<"define", "b", "2">>)}

IfPrograms ==
    {Par(<<"if">> \o t \o a \o b) : t \in Tests, a \in Branches, b \in Branches}

\* the programs of the documentation's examples
MutationExample ==
    Par(<<"begin">> \o Par(<<"define", "x", "1">>)
        \o Par(<<"define", "f">> \o Par(<<"->">> \o Par(<<>>) \o <<"x">>))
        \o Par(<<"set!", "x", "2">>) \o Par(<<"f">>))

ShadowingExample ==
    Par(<<"begin">> \o Par(<<"define", "x", "1">>)
        \o Par(Par(<<"->">> \o Par(<<"x">>) \o <<"x">>) \o <<"2">>))

Programs ==
    ShortPrograms \cup ClosurePrograms \cup LiteralCallPrograms \cup IfPrograms
    \cup {MutationExample, ShadowingExample}

(***************************************************************************)
(* main: print(eval(parse(program))) with env = global_env.                *)
(***************************************************************************)
Init ==
    /\ program \in Programs
    /\ tokens = program
    /\ x = NoneV
    /\ envs = <<standard_env>>
    /\ stack = <<>>
    /\ pc = "parse"
    /\ xpath = <<>>
    /\ xenv = 1
    /\ val = NoneV
    /\ error = NoError

\* an exception leaves every activation: nothing in the program catches it
Raise(kind) ==
    /\ pc' = "error"
    /\ error' = kind
    /\ stack' = <<>>
    /\ UNCHANGED <<program, tokens, x, envs, xpath, xenv, val>>

\* the activation at hand returns v to the one that waits on top of `stack`
Return(v) ==
    /\ pc' = "return"
    /\ val' = v
    /\ UNCHANGED <<program, tokens, x, envs, stack, xpath, xenv, error>>

\* the activation at hand calls eval(<path>, e), waiting in frame fr
CallEval(fr, path, e, st) ==
    /\ pc' = "eval"
    /\ stack' = Append(st, fr)
    /\ xpath' = path
    /\ xenv' = e
    /\ UNCHANGED <<program, tokens, envs, val, error>>

Parse ==
    /\ pc = "parse"
    /\ LET r == read_from_tokens(tokens)
       IN  /\ tokens' = r.tokens
           /\ IF r.err # NoError
              THEN /\ pc' = "error"
                   /\ error' = r.err
                   /\ UNCHANGED <<x, xpath, xenv>>
              ELSE /\ pc' = "eval"
                   /\ x' = r.exp
                   /\ xpath' = <<>>
                   /\ xenv' = 1
                   /\ UNCHANGED error
    /\ UNCHANGED <<program, envs, stack, val>>

(***************************************************************************)
(* eval(x, env): the activation at hand evaluates the expression at xpath  *)
(* in the Env xenv.                                                        *)
(***************************************************************************)
Node == NodeAt(x, xpath)
Entered == pc = "eval" /\ Len(stack) < MaxDepth
\* line 107, op, *args = x, when the list has at least two elements
IsForm == IsList(Node) /\ Len(Node.list) >= 2
Op == Node.list[1]
Args == Tail(Node.list)
IsInfix == IsForm /\ IsTheSym(Args[1], "->")
IsPrefix(s) == IsForm /\ ~IsInfix /\ IsTheSym(Op, s)
SpecialForms == {"quote", "if", "define", "set!", "->"}

\* the host refuses an activation beyond its recursion limit
EvalOverflow ==
    /\ pc = "eval"
    /\ Len(stack) >= MaxDepth
    /\ Raise(RecursionError)

\* lines 103-104
EvalSymbol ==
    /\ Entered
    /\ IsSym(Node)
    /\ LET e == Find(envs, xenv, Node)
       IN  IF e = 0 THEN Raise(AttributeError) ELSE Return(envs[e].vars[Node])

\* lines 105-106
EvalConstant ==
    /\ Entered
    /\ ~IsSym(Node)
    /\ ~IsList(Node)
    /\ Return(Node)

\* line 107 on an empty list, line 109 on a list of one element
EvalUnpack ==
    /\ Entered
    /\ IsList(Node)
    /\ Len(Node.list) < 2
    /\ IF Len(Node.list) = 0 THEN Raise(ValueError) ELSE Raise(IndexError)

\* lines 109-111
EvalInfix ==
    /\ Entered
    /\ IsInfix
    /\ x' = SwapAt(x, xpath)
    /\ CallEval(Frame("swap", xpath, xenv, NoneV, <<>>), xpath, xenv, stack)

\* lines 113-114
EvalQuote ==
    /\ Entered
    /\ IsPrefix("quote")
    /\ Return(Args[1])

\* lines 115-117
EvalIf ==
    /\ Entered
    /\ IsPrefix("if")
    /\ IF Len(Args) # 3
       THEN Raise(ValueError)
       ELSE /\ CallEval(Frame("if", xpath, xenv, NoneV, <<>>), xpath \o <<2>>, xenv, stack)
            /\ UNCHANGED x

\* lines 119-121
EvalDefine ==
    /\ Entered
    /\ IsPrefix("define")
    /\ IF Len(Args) # 2
       THEN Raise(ValueError)
       ELSE /\ CallEval(Frame("define", xpath, xenv, NoneV, <<>>), xpath \o <<3>>, xenv, stack)
            /\ UNCHANGED x

\* lines 122-124: the value is evaluated before the target env.find(symbol)
EvalSet ==
    /\ Entered
    /\ IsPrefix("set!")
    /\ IF Len(Args) # 2
       THEN Raise(ValueError)
       ELSE /\ CallEval(Frame("set", xpath, xenv, NoneV, <<>>), xpath \o <<3>>, xenv, stack)
            /\ UNCHANGED x

\* lines 125-127
EvalProcedure ==
    /\ Entered
    /\ IsPrefix("->")
    /\ IF Len(Args) # 2
       THEN Raise(ValueError)
       ELSE Return(Proc(Args[1], xpath \o <<3>>, xenv))

\* lines 128-129
EvalCall ==
    /\ Entered
    /\ IsForm
    /\ ~IsInfix
    /\ \A s \in SpecialForms : ~IsTheSym(Op, s)
    /\ CallEval(Frame("op", xpath, xenv, NoneV, <<>>), xpath \o <<1>>, xenv, stack)
    /\ UNCHANGED x

(***************************************************************************)
(* A nested call has returned val to the activation on top of the stack.   *)
(***************************************************************************)
Returned == pc = "return" /\ stack # <<>>

\* return eval(...) of lines 111, 118, 131 and 65: the value is passed on
ReturnPass ==
    /\ Returned
    /\ Top.k \in {"swap", "branch", "apply", "call"}
    /\ stack' = Rest
    /\ UNCHANGED <<program, tokens, x, envs, pc, xpath, xenv, val, error>>

\* lines 117-118: exp = (conseq if eval(test, env) else alt)
Chosen(v) == IF Truthy(v) THEN 3 ELSE 4

IfBranch ==
    /\ Returned
    /\ Top.k = "if"
    /\ CallEval(Frame("branch", Top.path, Top.env, NoneV, <<>>),
                Top.path \o <<Chosen(val)>>, Top.env, Rest)
    /\ UNCHANGED x

\* line 121: env[symbol] = <value>
Define ==
    /\ Returned
    /\ Top.k = "define"
    /\ LET symbol == NodeAt(x, Top.path).list[2]
       IN  IF ~Hashable(symbol)
           THEN Raise(TypeError)
           ELSE /\ envs' = [envs EXCEPT ![Top.env].vars = SetItem(@, symbol, val)]
                /\ stack' = Rest
                /\ val' = NoneV
                /\ UNCHANGED <<program, tokens, x, pc, xpath, xenv, error>>

\* an assignment that writes to the current Env, as define does
SetTargetCurrent(es, e, symbol) == e

\* line 124: env.find(symbol)[symbol] = <value>
SetTarget(es, e, symbol) == Find(es, e, symbol)

Set ==
    /\ Returned
    /\ Top.k = "set"
    /\ LET symbol == NodeAt(x, Top.path).list[2]
       IN  IF ~Hashable(symbol)
           THEN Raise(TypeError)
           ELSE LET e == SetTarget(envs, Top.env, symbol)
                IN  IF e = 0
                    THEN Raise(AttributeError)
                    ELSE /\ envs' = [envs EXCEPT ![e].vars = SetItem(@, symbol, val)]
                         /\ stack' = Rest
                         /\ val' = NoneV
                         /\ UNCHANGED <<program, tokens, x, pc, xpath, xenv, error>>

\* line 129 has returned proc; line 130 starts with the first operand
Operator ==
    /\ Returned
    /\ Top.k = "op"
    /\ CallEval(Frame("args", Top.path, Top.env, val, <<>>), Top.path \o <<2>>, Top.env, Rest)
    /\ UNCHANGED x

NumArgs(fr) == Len(NodeAt(x, fr.path).list) - 1
\* an operand order that takes the operand just evaluated once more
NextOperandRepeat(k) == k + 1

\* the operand that line 130 evaluates after k of them are done
NextOperand(k) == k + 2

\* line 130: one more operand
Operand ==
    /\ Returned
    /\ Top.k = "args"
    /\ Len(Top.vals) + 1 < NumArgs(Top)
    /\ CallEval(Frame("args", Top.path, Top.env, Top.proc, Append(Top.vals, val)),
                Top.path \o <<NextOperand(Len(Top.vals) + 1)>>, Top.env, Rest)
    /\ UNCHANGED x

LastOperand == Returned /\ Top.k = "args" /\ Len(Top.vals) + 1 = NumArgs(Top)
Vals == Append(Top.vals, val)

\* line 131 on one of the standard procedures
ApplyBuiltin ==
    /\ LastOperand
    /\ IsBuiltin(Top.proc)
    /\ LET r == CallBuiltin(Top.proc.builtin, Vals)
       IN  IF r.err # NoError
           THEN Raise(r.err)
           ELSE /\ stack' = Rest
                /\ val' = r.val
                /\ UNCHANGED <<program, tokens, x, envs, pc, xpath, xenv, error>>

\* line 131 on a Procedure: __call__ (line 65) builds the Env and evaluates
\* the body in it
ApplyProcedure ==
    /\ LastOperand
    /\ IsProc(Top.proc)
    /\ LET p == Top.proc.proc
           b == Bind(p.parms, Vals)
       IN  IF Len(stack) >= MaxDepth
           THEN Raise(RecursionError)
           ELSE IF b.err # NoError
           THEN Raise(b.err)
           ELSE /\ envs' = Append(envs, EnvRec(b.vars, p.env))
                /\ stack' = Rest \o <<Frame("apply", Top.path, Top.env, Top.proc, Vals),
                                      Frame("call", p.body, Len(envs) + 1, Top.proc, Vals)>>
                /\ pc' = "eval"
                /\ xpath' = p.body
                /\ xenv' = Len(envs) + 1
                /\ UNCHANGED <<program, tokens, x, val, error>>

\* line 131 on a value that cannot be called
ApplyOther ==
    /\ LastOperand
    /\ ~IsBuiltin(Top.proc)
    /\ ~IsProc(Top.proc)
    /\ Raise(TypeError)

\* line 157: the value of the program is printed
Finish ==
    /\ pc = "return"
    /\ stack = <<>>
    /\ pc' = "done"
    /\ UNCHANGED <<program, tokens, x, envs, stack, xpath, xenv, val, error>>

Next ==
    \/ Parse
    \/ EvalOverflow
    \/ EvalSymbol
    \/ EvalConstant
    \/ EvalUnpack
    \/ EvalInfix
    \/ EvalQuote
    \/ EvalIf
    \/ EvalDefine
    \/ EvalSet
    \/ EvalProcedure
    \/ EvalCall
    \/ ReturnPass
    \/ IfBranch
    \/ Define
    \/ Set
    \/ Operator
    \/ Operand
    \/ ApplyBuiltin
    \/ ApplyProcedure
    \/ ApplyOther
    \/ Finish

Spec == Init /\ [][Next]_vars

(***************************************************************************)
(* Properties.                                                             *)
(***************************************************************************)
Finished == pc \in {"done", "error"}

\* the Envs from e out to the root, innermost first
RECURSIVE Scopes(_, _)
Scopes(es, e) == IF e = 0 THEN <<>> ELSE <<e>> \o Scopes(es, es[e].outer)

\* the nearest Env of the chain from e that binds name, 0 when none does
Nearest(es, e, name) ==
    LET c == Scopes(es, e)
        at == {i \in 1..Len(c) : name \in DOMAIN es[c[i]].vars}
    IN  IF at = {} THEN 0 ELSE c[CHOOSE i \in at : \A j \in at : i <= j]

\* the error kinds of the documentation that the host has no exception for
UnboundVariable == "UnboundVariable"
ArityMismatch == "ArityMismatch"

\* C1: a closure sees a set! made to its defining environment after its
\* creation: (begin (define x 1) (define f (-> () x)) (set! x 2) (f))
\* evaluates to 2.
C1_MutationVisible ==
    (program = MutationExample /\ Finished) => (pc = "done" /\ val = Num(2))

\* an invocation binds the parameters in a new Env whose outer is the
\* Procedure's, evaluates the body there and changes no Env that existed
C2_CallBinds ==
    (LastOperand /\ IsProc(Top.proc) /\ pc' = "eval") =>
        LET p == Top.proc.proc
            new == Len(envs) + 1
            n == Min(Len(p.parms.list), Len(Vals))
        IN  /\ Len(envs') = new
            /\ SubSeq(envs', 1, Len(envs)) = envs
            /\ envs'[new].outer = p.env
            /\ xenv' = new
            /\ xpath' = p.body
            /\ IsList(p.parms) =>
                  \A j \in 1..n :
                      (\A k \in (j + 1)..n : p.parms.list[k] # p.parms.list[j]) =>
                          /\ p.parms.list[j] \in DOMAIN envs'[new].vars
                          /\ envs'[new].vars[p.parms.list[j]] = Vals[j]

\* a define binds the symbol in the Env it is evaluated in and changes no
\* other binding
C2_DefineBinds ==
    (Returned /\ Top.k = "define" /\ pc' # "error") =>
        LET symbol == NodeAt(x, Top.path).list[2]
        IN  /\ symbol \in DOMAIN envs'[Top.env].vars
            /\ envs'[Top.env].vars[symbol] = val
            /\ Len(envs') = Len(envs)
            /\ \A i \in 1..Len(envs) : i # Top.env => envs'[i] = envs[i]
            /\ \A k \in DOMAIN envs[Top.env].vars :
                  k # symbol => envs'[Top.env].vars[k] = envs[Top.env].vars[k]

\* a reference to a name yields the binding of the nearest Env that has one
C2_InnermostSeen ==
    (Entered /\ IsSym(Node) /\ pc' = "return") =>
        /\ Nearest(envs, xenv, Node) # 0
        /\ val' = envs[Nearest(envs, xenv, Node)].vars[Node]

\* the example of the documentation
C2_Example ==
    (program = ShadowingExample /\ Finished) =>
        (pc = "done" /\ val = Num(2) /\ envs[1].vars[Sym("x")] = Num(1))

\* C2: a parameter bound at invocation, or a define executed in a closure
\* body, is bound in the call's own Env and in no other: every Env that
\* existed keeps its bindings, a reference to the name finds the innermost
\* binding, and (begin (define x 1) ((-> (x) x) 2)) evaluates to 2 with x
\* still 1 in the root.
C2_Shadowing ==
    [][C2_CallBinds /\ C2_DefineBinds /\ C2_InnermostSeen /\ C2_Example']_vars

\* the example has run: the call's Env binds x to 2, the root's to 1
C2_Witness ==
    /\ program = ShadowingExample
    /\ pc = "done"
    /\ val = Num(2)
    /\ Len(envs) = 2
    /\ envs[2].vars[Sym("x")] = Num(2)
    /\ envs[1].vars[Sym("x")] = Num(1)

\* the open parentheses less the closing ones among the first k tokens
Opens(ts, k) ==
    Cardinality({i \in 1..k : ts[i] = "("}) - Cardinality({i \in 1..k : ts[i] = ")"})

\* the first token opens a list that the tokens never close
Unclosed(ts) == ts # <<>> /\ ts[1] = "(" /\ \A k \in 1..Len(ts) : Opens(ts, k) > 0

\* the reader has raised: no expression was read
ReadFailed == pc = "error" /\ IsNone(x)

\* C3: reading fails with the kind of the empty token sequence whenever the
\* tokens run out inside an open list, with the other kind when the token
\* popped for an expression is ")", and with no third kind.
C3_ReaderErrors ==
    /\ ReadFailed => error \in {SyntaxErrorEOF, SyntaxErrorParen}
    /\ (pc # "parse" /\ Unclosed(program)) => (ReadFailed /\ error = SyntaxErrorEOF)
    /\ (pc # "parse" /\ program # <<>> /\ program[1] = ")") =>
          (ReadFailed /\ error = SyntaxErrorParen)

\* a reference to a symbol that no Env of the chain binds
C4_Reference ==
    (Entered /\ IsSym(Node) /\ Nearest(envs, xenv, Node) = 0) =>
        (pc' = "error" /\ error' = UnboundVariable)

\* a set! of a symbol that no Env of the chain binds
C4_Assignment ==
    (Returned /\ Top.k = "set" /\ IsSym(NodeAt(x, Top.path).list[2])
        /\ Nearest(envs, Top.env, NodeAt(x, Top.path).list[2]) = 0) =>
        (pc' = "error" /\ error' = UnboundVariable)

\* C4: a reference to, or a set! of, a symbol that no Env of the chain
\* binds fails with the kind UnboundVariable.
C4_UnboundVariable == [][C4_Reference /\ C4_Assignment]_vars

\* C5: a Procedure invoked with a number of arguments other than its number
\* of parameters fails with ArityMismatch and its body is not evaluated.
C5_ArityChecked ==
    [][(LastOperand /\ IsProc(Top.proc) /\ IsList(Top.proc.proc.parms)
            /\ Len(Top.proc.proc.parms.list) # Len(Vals)) =>
        (pc' = "error" /\ error' = ArityMismatch /\ envs' = envs)]_vars

\* C6: (if test conseq alt) evaluates alt only when the test's value is
\* False, and conseq for every other value, 0 and the empty list included.
C6_OnlyFalseIsFalsy ==
    [][(Returned /\ Top.k = "if") =>
        /\ pc' = "eval"
        /\ xenv' = Top.env
        /\ xpath' = Top.path \o <<IF val = Bool(FALSE) THEN 4 ELSE 3>>]_vars

\* C7: (quote e) returns e, for every e, without an error and without a
\* change to any Env or to the expression.
C7_QuoteReturnsOperand ==
    [][(Entered /\ IsList(Node) /\ Len(Node.list) = 2 /\ IsTheSym(Node.list[1], "quote")) =>
        (pc' = "return" /\ val' = Node.list[2] /\ envs' = envs /\ x' = x)]_vars

\* the assignment of line 124, once the value is there
C8_SetStep ==
    (Returned /\ Top.k = "set" /\ Hashable(NodeAt(x, Top.path).list[2])) =>
        LET symbol == NodeAt(x, Top.path).list[2]
            t == Nearest(envs, Top.env, symbol)
        IN  IF t = 0
            THEN pc' = "error" /\ envs' = envs
            ELSE /\ pc' = "return"
                 /\ envs' = [envs EXCEPT ![t].vars[symbol] = val]

\* C8: set! overwrites the binding in the nearest Env of the chain that
\* binds the name and changes nothing else; when no Env binds the name it
\* fails and no Env changes.
C8_SetOverwritesNearest == [][C8_SetStep]_vars

\* a set! in a closure body has written to the root a name that the call's
\* Env does not bind
C8_Witness ==
    /\ pc = "return"
    /\ stack # <<>>
    /\ Top.k = "call"
    /\ IsList(NodeAt(x, Top.path))
    /\ Len(NodeAt(x, Top.path).list) = 3
    /\ IsTheSym(NodeAt(x, Top.path).list[1], "set!")
    /\ Top.env # 1
    /\ NodeAt(x, Top.path).list[2] \notin DOMAIN envs[Top.env].vars
    /\ NodeAt(x, Top.path).list[2] \in DOMAIN envs[1].vars
    /\ envs[1].vars[NodeAt(x, Top.path).list[2]] = Num(3)

\* an application starts with its operator, in the same Env
C9_OperatorFirst ==
    (Entered /\ IsForm /\ ~IsInfix /\ \A s \in SpecialForms : ~IsTheSym(Op, s)) =>
        (pc' = "eval" /\ xpath' = xpath \o <<1>> /\ xenv' = xenv /\ envs' = envs)

\* the operator's value is kept and the first operand comes next
C9_ThenFirstOperand ==
    (Returned /\ Top.k = "op") =>
        /\ pc' = "eval" /\ xpath' = Top.path \o <<2>> /\ xenv' = Top.env /\ envs' = envs
        /\ stack'[Len(stack')].proc = val /\ stack'[Len(stack')].vals = <<>>

\* after operand k comes operand k + 1, and the values are kept in order
C9_ThenNextOperand ==
    (Returned /\ Top.k = "args" /\ Len(Top.vals) + 1 < NumArgs(Top)) =>
        /\ pc' = "eval" /\ xenv' = Top.env /\ envs' = envs
        /\ xpath' = Top.path \o <<Len(Top.vals) + 3>>
        /\ stack'[Len(stack')].proc = Top.proc
        /\ stack'[Len(stack')].vals = Append(Top.vals, val)

\* after the last operand the callable is invoked with all the values
C9_ThenInvoke ==
    (Returned /\ Top.k = "args" /\ Len(Top.vals) + 1 = NumArgs(Top)) =>
        /\ (IsBuiltin(Top.proc) /\ Top.proc.builtin = "begin") =>
              (pc' = "return" /\ val' = val /\ envs' = envs)
        /\ (IsBuiltin(Top.proc) /\ Top.proc.builtin = "list") =>
              (pc' = "return" /\ val' = Lst(Append(Top.vals, val)) /\ envs' = envs)
        /\ (IsProc(Top.proc) /\ pc' = "eval") =>
              /\ xpath' = Top.proc.proc.body
              /\ stack'[Len(stack')].vals = Append(Top.vals, val)

\* the operands so far are the values of the operands 1..k, in this order:
\* an operand that is a constant has its own value at its own place
C9_ValuesInPlace ==
    \A i \in 1..Len(stack) :
        stack[i].k = "args" =>
            \A j \in 1..Len(stack[i].vals) :
                LET operand == NodeAt(x, stack[i].path).list[j + 1]
                IN  IsNum(operand) => stack[i].vals[j] = operand

C10_Swap ==
    (Entered /\ IsInfix /\ ~IsTheSym(Op, "->")) =>
        /\ pc' = "eval" /\ xpath' = xpath /\ xenv' = xenv /\ envs' = envs
        /\ NodeAt(x', xpath).list =
              [Node.list EXCEPT ![1] = Node.list[2], ![2] = Node.list[1]]
        /\ IsPrefix("->")'

\* the evaluation of a list that starts with ->
C10_Closure ==
    (Entered /\ IsPrefix("->")) =>
        /\ x' = x
        /\ envs' = envs
        /\ \/ pc' = "error"
           \/ /\ pc' = "return"
              /\ val' = Proc(Node.list[2], xpath \o <<3>>, xenv)

====
